---- MODULE Spec2Model ----
(***************************************************************************)
(* Conway's Game of Life on a toroidal grid: the Universe of src/lib.rs.   *)
(*                                                                         *)
(* The Universe is modelled by its three fields.  `cells` is a sequence of *)
(* cell values (Dead = 0, Alive = 1); the Rust index i is position i + 1   *)
(* of the sequence.  u32 arithmetic is modelled with its width: a product  *)
(* or sum that leaves the u32 range either wraps modulo 2^32 (a build      *)
(* without overflow checks) or panics (a build with them).                 *)
(***************************************************************************)
EXTENDS Integers, Sequences, FiniteSets, TLC

VARIABLES
    width,      \* Universe.width  : u32
    height,     \* Universe.height : u32
    cells,      \* Universe.cells  : Vec<Cell>
    err,        \* "none", or "panic" once an operation has panicked
    op,         \* the last operation called and its arguments
    prev,       \* the fields of the Universe when the last operation was called
    start,      \* the fields of the Universe after the last operation other than tick
    gen         \* the number of tick() calls since `start`

vars == <<width, height, cells, err, op, prev, start, gen>>

-----------------------------------------------------------------------------
(* Bounds of the exploration *)

\* the callers pass dimensions 0 .. MaxDim (and OverflowDim), coordinates
\* 0 .. MaxDim, and lists of coordinates 0 .. MaxDim - 1
MaxDim == 3
\* Spec explores the cell operations on grids of at most MaxCells cells
MaxCells == 4
\* a resize is explored when the vector it allocates has at most MaxAlloc cells
MaxAlloc == 20000
\* at most MaxGen consecutive tick() calls are explored
MaxGen == 3
\* set_cells is called with lists of at most MaxList coordinates
MaxList == 2
\* inject_random_cells is called with a size in -1 .. MaxSize, and with the
\* sizes -MaxSize .. 0 and i32::MIN of an empty range
MaxSize == 3
\* the grids of SpecToggle, SpecSetCells, SpecRender and the SpecInject
\* specifications have at most MaxEditCells cells
MaxEditCells == 6
\* the grids of SpecTick have dimensions 1 .. MaxTickDim and at most
\* MaxTickCells cells
MaxTickDim == 4
MaxTickCells == 12
\* the grids of SpecLife have dimensions up to MaxLifeDim
MaxLifeDim == 6

-----------------------------------------------------------------------------
(* Cell *)

Dead == 0
Alive == 1

-----------------------------------------------------------------------------
(* Machine integers.                                                       *)
(*                                                                         *)
(* A u32 or i32 is modelled by the 32 bits it holds, written as the i32    *)
(* they spell: n >= 0 is the u32 n, and n < 0 is the u32 2^32 + n.  `as`   *)
(* between u32 and i32 therefore changes nothing.  Sums and products are   *)
(* taken on 16-bit halves and 8-bit limbs, so that the 33rd bit and above  *)
(* (the overflow) are computed, not assumed away; operands small enough    *)
(* for the result to stay far inside the range are added and multiplied    *)
(* directly, which gives the same 32 bits.                                 *)

\* the number of values of a byte and of a 16-bit half
Byte == 256
Half == 65536
\* i32::MAX and i32::MIN
I32Max == 2147483647
I32Min == -I32Max - 1

\* the low and the high 16 bits
Lo16(x) == x % Half
Hi16(x) == ((x - Lo16(x)) \div Half) % Half

\* the 32 bits with high half h and low half l
FromHalves(h, l) == (IF h >= Half \div 2 THEN h - Half ELSE h) * Half + l

\* the four 8-bit limbs, least significant first
Limbs(x) ==
    <<Lo16(x) % Byte, Lo16(x) \div Byte, Hi16(x) % Byte, Hi16(x) \div Byte>>

\* u32 addition: the 32 bits of the sum, and whether the sum left the u32 range
AddCarry(x, y) ==
    IF x \in 0..Half /\ y \in 0..Half
    THEN [bits |-> x + y, overflow |-> FALSE]
    ELSE LET lo == Lo16(x) + Lo16(y)
             hi == Hi16(x) + Hi16(y) + (lo \div Half)
         IN  [bits |-> FromHalves(hi % Half, lo % Half), overflow |-> hi >= Half]

AddU32(x, y) == AddCarry(x, y).bits
AddOverflowsU32(x, y) == AddCarry(x, y).overflow

\* the sum of the limb products x[i] * y[j] with i + j = k (limbs from 0)
Column(x, y, k) ==
    LET a == Limbs(x)
        b == Limbs(y)
        term(i) == IF k - i \in 0..3 THEN a[i + 1] * b[k - i + 1] ELSE 0
    IN  term(0) + term(1) + term(2) + term(3)

\* u32 multiplication: the 32 bits of the product, and whether it left the range
MulCarry(x, y) ==
    IF x \in 0..Byte /\ y \in 0..Byte
    THEN [bits |-> x * y, overflow |-> FALSE]
    ELSE LET t0 == Column(x, y, 0)
             t1 == Column(x, y, 1) + (t0 \div Byte)
             t2 == Column(x, y, 2) + (t1 \div Byte)
             t3 == Column(x, y, 3) + (t2 \div Byte)
             lo == (t1 % Byte) * Byte + (t0 % Byte)
             hi == (t3 % Byte) * Byte + (t2 % Byte)
         IN  [bits |-> FromHalves(hi, lo),
              overflow |->
                  \/ t3 \div Byte > 0
                  \/ Column(x, y, 4) + Column(x, y, 5) + Column(x, y, 6) > 0]

MulU32(x, y) == MulCarry(x, y).bits
MulOverflowsU32(x, y) == MulCarry(x, y).overflow

\* a u32 is below a length (lengths are below 2^31)
BelowLen(x, n) == x >= 0 /\ x < n

\* a dimension whose product with 100 and with 200 leaves the u32 range
OverflowDim == 42949673

Grid(w, h, c) == [width |-> w, height |-> h, cells |-> c]
Current == Grid(width, height, cells)

AllDead(n) == [i \in 1..n |-> Dead]

\* an operation and its arguments; rand counts the calls of rand_cell_value,
\* text is the String the operation returned
Call(name, row, col, size, list) ==
    [name |-> name, row |-> row, col |-> col, size |-> size, list |-> list,
     rand |-> 0, text |-> <<>>]

\* what an operation leaves behind: the cells, and whether it panicked
Outcome(c, e) == [cells |-> c, err |-> e]

-----------------------------------------------------------------------------
(* Universe::new *)

DefaultWidth == 200
DefaultHeight == 100

\* the cells with && in the place of ||
NewCellsBoth ==
    [n \in 1..(DefaultWidth * DefaultHeight) |->
        LET i == n - 1
        IN  IF i % 2 = 0 /\ i % 7 = 0 THEN Alive ELSE Dead]

NewCells ==
    [n \in 1..(DefaultWidth * DefaultHeight) |->
        LET i == n - 1
        IN  IF i % 2 = 0 \/ i % 7 = 0 THEN Alive ELSE Dead]

New == Grid(DefaultWidth, DefaultHeight, NewCells)

-----------------------------------------------------------------------------
(* Universe::get_index *)

\* row * self.width + col in u32: the product or the sum leaves the u32 range
IndexOverflows(g, row, col) ==
    \/ MulOverflowsU32(row, g.width)
    \/ AddOverflowsU32(MulU32(row, g.width), col)

\* the index with the height in the place of the width
get_indexByHeight(g, row, col) == AddU32(MulU32(row, g.height), col)

\* (row * self.width + col) as usize
get_index(g, row, col) == AddU32(MulU32(row, g.width), col)

\* self.cells[index] is inside the vector
InVec(g, index) == BelowLen(index, Len(g.cells))

At(g, index) == g.cells[index + 1]

-----------------------------------------------------------------------------
(* Universe::live_neighbor_count *)

\* the deltas with the first one not reduced by one, or short by one
RowDeltasFull(g) == <<g.height, 0, 1>>
ColDeltasShort(g) == <<g.width - 2, 0, 1>>

\* [self.height - 1, 0, 1] and [self.width - 1, 0, 1]; read with dimensions > 0
RowDeltas(g) == <<g.height - 1, 0, 1>>
ColDeltas(g) == <<g.width - 1, 0, 1>>

\* the index without the reduction modulo the dimensions
NeighborIndexUnwrapped(g, row, col, row_delta, col_delta) ==
    get_index(g, AddU32(row, row_delta), AddU32(col, col_delta))

\* the index read for one pair of deltas
NeighborIndex(g, row, col, row_delta, col_delta) ==
    LET neighbor_row == AddU32(row, row_delta) % g.height
        neighbor_col == AddU32(col, col_delta) % g.width
    IN  get_index(g, neighbor_row, neighbor_col)

\* what one pass of the inner loop body adds to count
NeighborTerm(g, row, col, row_delta, col_delta) ==
    IF row_delta = 0 /\ col_delta = 0
    THEN 0
    ELSE At(g, NeighborIndex(g, row, col, row_delta, col_delta))

\* the passes k .. 9 of the two nested loops, in the order the code runs them
RECURSIVE CountFrom(_, _, _, _)
CountFrom(g, row, col, k) ==
    IF k > 9
    THEN 0
    ELSE LET row_delta == RowDeltas(g)[((k - 1) \div 3) + 1]
             col_delta == ColDeltas(g)[((k - 1) % 3) + 1]
         IN  NeighborTerm(g, row, col, row_delta, col_delta)
                 + CountFrom(g, row, col, k + 1)

live_neighbor_count(g, row, col) == CountFrom(g, row, col, 1)

-----------------------------------------------------------------------------
(* Universe::tick *)

\* the match of tick without its fourth arm
NextCellStateNoBirth(cell, live_neighbors) ==
    CASE cell = Alive /\ live_neighbors < 2 -> Dead
      [] cell = Alive /\ live_neighbors > 3 -> Dead
      [] cell = Alive /\ live_neighbors \in {2, 3} -> Alive
      [] OTHER -> cell

\* the match of tick without its second arm
NextCellStateCrowded(cell, live_neighbors) ==
    CASE cell = Alive /\ live_neighbors < 2 -> Dead
      [] cell = Alive /\ live_neighbors \in {2, 3} -> Alive
      [] cell = Dead /\ live_neighbors = 3 -> Alive
      [] OTHER -> cell

\* the match of tick
NextCellState(cell, live_neighbors) ==
    CASE cell = Alive /\ live_neighbors < 2 -> Dead
      [] cell = Alive /\ live_neighbors > 3 -> Dead
      [] cell = Alive /\ live_neighbors \in {2, 3} -> Alive
      [] cell = Dead /\ live_neighbors = 3 -> Alive
      [] OTHER -> cell

\* a loop that reads the cells it has written
TickSourceInPlace(g, next_state) == [g EXCEPT !.cells = next_state]

\* the loop reads self, whose cells the loop does not write
TickSource(g, next_state) == g

\* the loop body for the cells order[k], order[k+1], ... ; the result is next_state
RECURSIVE TickLoop(_, _, _, _)
TickLoop(g, order, k, next_state) ==
    IF k > Len(order)
    THEN next_state
    ELSE LET row == order[k][1]
             col == order[k][2]
             self == TickSource(g, next_state)
             index == get_index(self, row, col)
             cell == At(self, index)
             live_neighbors == live_neighbor_count(self, row, col)
             next_cell_state == NextCellState(cell, live_neighbors)
         IN  TickLoop(g, order, k + 1,
                      [next_state EXCEPT ![index + 1] = next_cell_state])

\* for row in 0..height { for col in 0..width { .. } }
RowMajor(g) ==
    [k \in 1..(g.width * g.height) |->
        <<(k - 1) \div g.width, (k - 1) % g.width>>]

\* the value tick assigns to self.cells
tick(g) == TickLoop(g, RowMajor(g), 1, g.cells)

\* the indices one pass of the loop body reads in self.cells: the cell's own
\* and, in live_neighbor_count, those of the pairs of deltas that are not skipped
TickReads(g, row, col) ==
    {get_index(g, row, col)} \cup
    {NeighborIndex(g, row, col, RowDeltas(g)[a], ColDeltas(g)[b]) :
        <<a, b>> \in {p \in (1..3) \X (1..3) :
                        ~(RowDeltas(g)[p[1]] = 0 /\ ColDeltas(g)[p[2]] = 0)}}

\* the pass for (row, col) indexes self.cells outside the vector
TickPassPanics(g, row, col) ==
    \E index \in TickReads(g, row, col) : ~InVec(g, index)

\* The loop body runs for every (row, col) of 0..height x 0..width; tick panics
\* when a pass does.  With a product width * height that leaves the u32 range
\* (after a resize whose product wrapped) the passes are too many to walk: the
\* vector is shorter than the product, row * width + col takes every value from
\* 0 on, and self.cells[index] panics at index = Len(cells) at the latest.
\* next_state is a local: a panic leaves the fields as they were.
TickPanics(g) ==
    /\ g.width # 0
    /\ g.height # 0
    /\ \/ MulOverflowsU32(g.width, g.height)
       \/ \E k \in 1..Len(RowMajor(g)) :
              TickPassPanics(g, RowMajor(g)[k][1], RowMajor(g)[k][2])

Tick ==
    /\ err = "none"
    /\ gen < MaxGen
    /\ IF TickPanics(Current)
       THEN /\ err' = "panic"
            /\ cells' = cells
       ELSE /\ err' = "none"
            /\ cells' = tick(Current)
    /\ op' = Call("tick", 0, 0, 0, <<>>)
    /\ prev' = Current
    /\ gen' = gen + 1
    /\ UNCHANGED <<width, height, start>>

-----------------------------------------------------------------------------
(* Cell::toggle and Universe::toggle_cell *)

\* a toggle that only brings to life
ToggleSets(cell) == Alive

toggle(cell) == IF cell = Dead THEN Alive ELSE Dead

\* the coordinates the callers pass: inside and outside the small grids
Coords == 0..MaxDim

\* self.cells[index] can be reached: the index is inside the vector
IndexSucceeds(g, row, col) == InVec(g, get_index(g, row, col))

\* the access can panic: the index is outside the vector, or the build checks
\* overflow and row * width + col leaves the u32 range
IndexPanics(g, row, col) ==
    \/ IndexOverflows(g, row, col)
    \/ ~InVec(g, get_index(g, row, col))

toggle_cell(g, row, col) ==
    LET index == get_index(g, row, col)
    IN  (IF IndexSucceeds(g, row, col)
         THEN {Outcome([g.cells EXCEPT ![index + 1] = toggle(@)], "none")}
         ELSE {})
        \cup
        (IF IndexPanics(g, row, col)
         THEN {Outcome(g.cells, "panic")}
         ELSE {})

ToggleCell(row, col) ==
    /\ err = "none"
    /\ \E out \in toggle_cell(Current, row, col) :
          /\ cells' = out.cells
          /\ err' = out.err
          /\ start' = Grid(width, height, out.cells)
    /\ op' = Call("toggle_cell", row, col, 0, <<>>)
    /\ prev' = Current
    /\ gen' = 0
    /\ UNCHANGED <<width, height>>

-----------------------------------------------------------------------------
(* Universe::set_cells *)

\* a write that flips the cell
SetCellFlips(cell) == toggle(cell)

\* the value set_cells writes over a cell
SetCell(cell) == Alive

\* the entries list[k], list[k+1], ... of the loop; a panic leaves the entries
\* written before it in place
RECURSIVE SetCellsFrom(_, _, _)
SetCellsFrom(g, list, k) ==
    IF k > Len(list)
    THEN {Outcome(g.cells, "none")}
    ELSE LET row == list[k][1]
             col == list[k][2]
             idx == get_index(g, row, col)
         IN  (IF IndexSucceeds(g, row, col)
              THEN SetCellsFrom([g EXCEPT !.cells[idx + 1] = SetCell(@)], list, k + 1)
              ELSE {})
             \cup
             (IF IndexPanics(g, row, col)
              THEN {Outcome(g.cells, "panic")}
              ELSE {})

set_cells(g, list) == SetCellsFrom(g, list, 1)

\* the coordinates of the lists the callers pass
ListCoords == 0..(MaxDim - 1)

\* the lists of at most n coordinates
CoordLists(n) ==
    UNION {[1..k -> ListCoords \X ListCoords] : k \in 0..n}

SetCells(list) ==
    /\ err = "none"
    /\ \E out \in set_cells(Current, list) :
          /\ cells' = out.cells
          /\ err' = out.err
          /\ start' = Grid(width, height, out.cells)
    /\ op' = Call("set_cells", 0, 0, 0, list)
    /\ prev' = Current
    /\ gen' = 0
    /\ UNCHANGED <<width, height>>

-----------------------------------------------------------------------------
(* Universe::set_width and Universe::set_height *)

\* the dimensions the callers pass
DimInputs == (0..MaxDim) \cup {OverflowDim}

\* the number of cells a resize allocates: the product w * h taken in u32
ResizedLen(w, h) == MulU32(w, h)

\* (0..w * h).map(|_| Cell::Dead).collect()
ResizedCells(w, h) == AllDead(ResizedLen(w, h))

\* the product w * h leaves the u32 range
ProductOverflows(w, h) == MulOverflowsU32(w, h)

\* the vector is small enough to be explored
Allocates(n) == BelowLen(n, MaxAlloc + 1)

\* the fields after the call returns
set_width(g, w) == Grid(w, g.height, ResizedCells(w, g.height))
set_height(g, h) == Grid(g.width, h, ResizedCells(g.width, h))

SetWidth(w) ==
    /\ err = "none"
    /\ \/ /\ Allocates(ResizedLen(w, height))
          /\ width' = w
          /\ cells' = set_width(Current, w).cells
          /\ height' = set_width(Current, w).height
          /\ err' = "none"
       \/ /\ ProductOverflows(w, height)
          /\ width' = w
          /\ UNCHANGED <<height, cells>>
          /\ err' = "panic"
    /\ op' = Call("set_width", 0, 0, w, <<>>)
    /\ prev' = Current
    /\ start' = Grid(width', height', cells')
    /\ gen' = 0

SetHeight(h) ==
    /\ err = "none"
    /\ \/ /\ Allocates(ResizedLen(width, h))
          /\ height' = h
          /\ cells' = set_height(Current, h).cells
          /\ width' = set_height(Current, h).width
          /\ err' = "none"
       \/ /\ ProductOverflows(width, h)
          /\ height' = h
          /\ UNCHANGED <<width, cells>>
          /\ err' = "panic"
    /\ op' = Call("set_height", 0, 0, h, <<>>)
    /\ prev' = Current
    /\ start' = Grid(width', height', cells')
    /\ gen' = 0

-----------------------------------------------------------------------------
(* wrap_for_size *)

Abs(x) == IF x < 0 THEN -x ELSE x

\* Rust's % on i32: the result has the sign of the dividend (b # 0)
Rem(a, b) == IF a >= 0 THEN a % Abs(b) ELSE -((-a) % Abs(b))

\* s + i in i32: the operands have one sign and the 32 bits of the sum the other
WrapSumOverflows(i, size) ==
    LET sum == AddU32(size, i)
    IN  \/ size >= 0 /\ i >= 0 /\ sum < 0
        \/ size < 0 /\ i < 0 /\ sum >= 0

\* % s is defined: with s = 0 it panics in every build
WrapDivides(i, size) == size # 0

\* ((s + i) % s) as u32, with s = size as i32
wrap_for_size(i, size) ==
    LET s == size
    IN  Rem(AddU32(s, i), s)

-----------------------------------------------------------------------------
(* Universe::inject_random_cells *)

\* the centres and sizes the callers pass
Centres == 0..MaxDim
Sizes == -1..MaxSize

\* -size in i32 leaves the range: a build that checks overflow panics, another
\* gets i32::MIN again
NegOverflows(size) == size = I32Min

\* a range that includes its upper end
DeltaRangeInclusive(size) ==
    [k \in 1..(IF size >= 0 THEN 2 * size + 1 ELSE 0) |-> k - 1 - size]

\* -size..size: empty unless -size < size
DeltaRange(size) == [k \in 1..(IF size > 0 THEN 2 * size ELSE 0) |-> k - 1 - size]

\* the passes of the two nested loops, in order: <<col_delta, row_delta>>
InjectPasses(size) ==
    LET d == DeltaRange(size)
        n == Len(d)
    IN  [k \in 1..(n * n) |-> <<d[((k - 1) \div n) + 1], d[((k - 1) % n) + 1]>>]

\* the coordinate and the index one pass computes; only read when both
\* dimensions are nonzero
InjectCol(g, col, col_delta) == wrap_for_size(col + col_delta, g.width)
InjectRow(g, row, row_delta) == wrap_for_size(row + row_delta, g.height)
\* the index with the row and the column exchanged
InjectIndexSwapped(g, row, col, pass) ==
    get_index(g, InjectCol(g, col, pass[1]), InjectRow(g, row, pass[2]))

InjectIndex(g, row, col, pass) ==
    get_index(g, InjectRow(g, row, pass[2]), InjectCol(g, col, pass[1]))

\* the pass cannot complete in any build
InjectMustPanic(g, row, col, pass) ==
    \/ ~WrapDivides(col + pass[1], g.width)
    \/ ~WrapDivides(row + pass[2], g.height)
    \/ ~InVec(g, InjectIndex(g, row, col, pass))

\* the pass panics in a build that checks overflow
InjectMayPanic(g, row, col, pass) ==
    \/ WrapSumOverflows(col + pass[1], g.width)
    \/ WrapSumOverflows(row + pass[2], g.height)
    \/ /\ WrapDivides(col + pass[1], g.width)
       /\ WrapDivides(row + pass[2], g.height)
       /\ IndexOverflows(g, InjectRow(g, row, pass[2]), InjectCol(g, col, pass[1]))

\* the indices the passes 1 .. k write
WrittenBy(g, row, col, passes, k) ==
    {InjectIndex(g, row, col, passes[j]) : j \in 1..k}

\* the pass panics before it calls rand_cell_value: in wrap_for_size or in
\* get_index
PanicsBeforeRand(g, row, col, pass) ==
    \/ ~WrapDivides(col + pass[1], g.width)
    \/ ~WrapDivides(row + pass[2], g.height)
    \/ InjectMayPanic(g, row, col, pass)

\* the pass panics after it: the right-hand side of the assignment is
\* evaluated before self.cells[index] is checked
PanicsAfterRand(g, row, col, pass) ==
    /\ WrapDivides(col + pass[1], g.width)
    /\ WrapDivides(row + pass[2], g.height)
    /\ ~InVec(g, InjectIndex(g, row, col, pass))

\* the ways the loops can end: the indices written, how often rand_cell_value
\* was called, and whether the loop panicked.  The loops reach pass k when no
\* pass before it panics in every build.
InjectLoops(g, row, col, passes) ==
    LET n == Len(passes)
        musts == {k \in 1..n : InjectMustPanic(g, row, col, passes[k])}
        stops == {k \in 1..n : \A j \in musts : j >= k}
    IN  {[written |-> WrittenBy(g, row, col, passes, n), rand |-> n, err |-> "none"] :
            k \in {m \in {n} : musts = {}}}
        \cup
        {[written |-> WrittenBy(g, row, col, passes, k - 1), rand |-> k - 1,
          err |-> "panic"] :
            k \in {m \in stops : PanicsBeforeRand(g, row, col, passes[m])}}
        \cup
        {[written |-> WrittenBy(g, row, col, passes, k - 1), rand |-> k,
          err |-> "panic"] :
            k \in {m \in stops : PanicsAfterRand(g, row, col, passes[m])}}

inject_random_cells(g, row, col, size) ==
    InjectLoops(g, row, col, InjectPasses(size))
    \cup
    (IF NegOverflows(size)
     THEN {[written |-> {}, rand |-> 0, err |-> "panic"]}
     ELSE {})

\* Cell::rand_cell_value returns either value: a written cell ends with the value
\* of the last call that wrote it, every other cell is as before
RandomFill(c, written) ==
    {d \in [1..Len(c) -> {Dead, Alive}] :
        \A n \in 1..Len(c) : (n - 1) \notin written => d[n] = c[n]}

InjectRandomCells(row, col, size) ==
    /\ err = "none"
    /\ \E out \in inject_random_cells(Current, row, col, size) :
          /\ cells' \in RandomFill(cells, out.written)
          /\ err' = out.err
          /\ op' = [Call("inject_random_cells", row, col, size, <<>>)
                        EXCEPT !.rand = out.rand]
    /\ prev' = Current
    /\ start' = Grid(width, height, cells')
    /\ gen' = 0
    /\ UNCHANGED <<width, height>>

-----------------------------------------------------------------------------
(* Universe::get_cells *)

\* the view the caller gets
get_cells(g) == g.cells

GetCells ==
    /\ err = "none"
    /\ op' = Call("get_cells", 0, 0, 0, <<>>)
    /\ prev' = Current
    /\ start' = Current
    /\ gen' = 0
    /\ UNCHANGED <<width, height, cells, err>>

-----------------------------------------------------------------------------
(* Universe::text_render and Display for Universe *)

\* the two character literals of fmt, the first for a Dead cell and the second
\* for any other, and the "\n" that ends a line.  A String is modelled as the
\* sequence of its characters.
DeadSymbol == "dead symbol"
AliveSymbol == "alive symbol"
LineBreak == "\n"

\* a chunk as long as the grid is high
LineLengthIsHeight(g) == g.height

\* self.width as usize
LineLength(g) == g.width

Min(a, b) == IF a < b THEN a ELSE b

\* slice.chunks(n), n # 0: chunks of n elements, the last one with what is left
Chunks(c, n) ==
    [k \in 1..((Len(c) + n - 1) \div n) |->
        SubSeq(c, (k - 1) * n + 1, Min(k * n, Len(c)))]

\* if cell == Cell::Dead { .. } else { .. }
Symbol(cell) == IF cell = Dead THEN DeadSymbol ELSE AliveSymbol

\* the inner loop and the write of "\n"
WriteLine(line) == [i \in 1..Len(line) |-> Symbol(line[i])] \o <<LineBreak>>

\* the outer loop from the k-th chunk on
RECURSIVE FmtFrom(_, _)
FmtFrom(lines, k) ==
    IF k > Len(lines) THEN <<>> ELSE WriteLine(lines[k]) \o FmtFrom(lines, k + 1)

fmt(g) == FmtFrom(Chunks(g.cells, LineLength(g)), 1)

\* self.to_string()
text_render(g) == fmt(g)

\* chunks panics when the chunk size is 0
RenderPanics(g) == LineLength(g) = 0

TextRender ==
    /\ err = "none"
    /\ IF RenderPanics(Current)
       THEN /\ err' = "panic"
            /\ op' = Call("text_render", 0, 0, 0, <<>>)
       ELSE /\ err' = "none"
            /\ op' = [Call("text_render", 0, 0, 0, <<>>)
                          EXCEPT !.text = text_render(Current)]
    /\ prev' = Current
    /\ start' = Current
    /\ gen' = 0
    /\ UNCHANGED <<width, height, cells>>

-----------------------------------------------------------------------------
(* The program: a Universe made by new(), and its callers *)

Init ==
    /\ width = New.width
    /\ height = New.height
    /\ cells = New.cells
    /\ err = "none"
    /\ op = Call("new", 0, 0, 0, <<>>)
    /\ prev = New
    /\ start = New
    /\ gen = 0

\* the cell operations are explored on the small grids
Explored == Len(cells) <= MaxCells

Next ==
    \/ GetCells
    \/ Explored /\ TextRender
    \/ Explored /\ Tick
    \/ Explored /\ \E row \in Coords, col \in Coords : ToggleCell(row, col)
    \/ Explored /\ \E list \in CoordLists(1) : SetCells(list)
    \/ Explored /\ \E row \in 0..1, col \in 0..1, size \in 0..1 :
          InjectRandomCells(row, col, size)
    \/ \E w \in DimInputs : SetWidth(w)
    \/ \E h \in DimInputs : SetHeight(h)

Spec == Init /\ [][Next]_vars

-----------------------------------------------------------------------------
(* One operation at a time, on every small grid.                           *)
(*                                                                         *)
(* Every grid with positive dimensions and width * height cells is reached *)
(* from new() by set_width, set_height and set_cells.  The specifications  *)
(* below start from such a grid, just read by get_cells, and call one      *)
(* operation on it with every input of a bounded set.                      *)

\* the grids with dimensions 1 .. maxDim and at most maxCells cells
SmallGrids(maxDim, maxCells) ==
    UNION {{Grid(d[1], d[2], c) : c \in [1..(d[1] * d[2]) -> {Dead, Alive}]} :
              d \in {e \in (1..maxDim) \X (1..maxDim) : e[1] * e[2] <= maxCells}}

\* a grid of S, just read
InitRead(S) ==
    \E g \in S :
        /\ width = g.width
        /\ height = g.height
        /\ cells = g.cells
        /\ err = "none"
        /\ op = Call("get_cells", 0, 0, 0, <<>>)
        /\ prev = g
        /\ start = g
        /\ gen = 0

\* the grid has just been read: the next call is the one explored
JustRead == op.name = "get_cells"

EditGrids == SmallGrids(MaxDim, MaxEditCells)

InitTick == InitRead(SmallGrids(MaxTickDim, MaxTickCells))
NextTick == JustRead /\ Tick
SpecTick == InitTick /\ [][NextTick]_vars

InitEdit == InitRead(EditGrids)

\* the grid w x h whose Alive cells are at the coordinates of S
PatternGrid(w, h, S) ==
    Grid(w, h, [n \in 1..(w * h) |->
                   IF <<(n - 1) \div w, (n - 1) % w>> \in S THEN Alive ELSE Dead])

\* a 2 x 2 block with its corner at (r, c), a row and a column of three cells
\* centred at (r, c), on the torus
Block(w, h, r, c) == {<<(r + a) % h, (c + b) % w>> : a \in {0, 1}, b \in {0, 1}}
BlinkerRow(w, h, r, c) == {<<r, (c + b) % w>> : b \in {-1, 0, 1}}
BlinkerCol(w, h, r, c) == {<<(r + a) % h, c>> : a \in {-1, 0, 1}}

BlockGrids ==
    {PatternGrid(w, h, Block(w, h, r, c)) :
        <<w, h, r, c>> \in {q \in (4..MaxLifeDim) \X (4..MaxLifeDim)
                                  \X (0..(MaxLifeDim - 1)) \X (0..(MaxLifeDim - 1)) :
                               q[3] < q[2] /\ q[4] < q[1]}}
BlinkerGrids ==
    {PatternGrid(w, h, BlinkerRow(w, h, r, c)) :
        <<w, h, r, c>> \in {q \in (5..MaxLifeDim) \X (5..MaxLifeDim)
                                  \X (0..(MaxLifeDim - 1)) \X (0..(MaxLifeDim - 1)) :
                               q[3] < q[2] /\ q[4] < q[1]}}

InitLife == InitRead(BlockGrids \cup BlinkerGrids)
SpecLife == InitLife /\ [][Tick]_vars

NextToggle == \E row \in Coords, col \in Coords : ToggleCell(row, col)
SpecToggle == InitEdit /\ [][NextToggle]_vars

NextSetCells == JustRead /\ \E list \in CoordLists(MaxList) : SetCells(list)
SpecSetCells == InitEdit /\ [][NextSetCells]_vars

NextInject ==
    /\ JustRead
    /\ \E row \in Centres, col \in Centres, size \in Sizes :
          InjectRandomCells(row, col, size)
SpecInject == InitEdit /\ [][NextInject]_vars

NextRender == JustRead /\ TextRender
SpecRender == InitEdit /\ [][NextRender]_vars

\* the callers that keep the centre inside the grid and the size within
\* 1 .. min(width, height)
NextInjectInside ==
    /\ JustRead
    /\ \E row \in Centres, col \in Centres, size \in 1..MaxSize :
          /\ row < height /\ col < width
          /\ size <= width /\ size <= height
          /\ InjectRandomCells(row, col, size)
SpecInjectInside == InitEdit /\ [][NextInjectInside]_vars

\* the sizes whose range -size..size is empty
EmptySizes == {I32Min} \cup ((-MaxSize)..0)

NextInjectEmpty ==
    /\ JustRead
    /\ \E row \in Centres, col \in Centres, size \in EmptySizes :
          InjectRandomCells(row, col, size)
SpecInjectEmpty == InitEdit /\ [][NextInjectEmpty]_vars

-----------------------------------------------------------------------------
(* What the claims speak of *)

Rows(g) == 0..(g.height - 1)
Cols(g) == 0..(g.width - 1)

\* the cell at (row, col) of a grid with width * height cells
CellAt(g, row, col) == g.cells[row * g.width + col + 1]

\* the eight offsets of a neighbourhood
Offsets == (({-1, 0, 1}) \X ({-1, 0, 1})) \ {<<0, 0>>}

\* the number of offsets whose position on the torus holds an Alive cell
LiveAround(g, row, col) ==
    Cardinality({o \in Offsets :
        CellAt(g, (row + o[1]) % g.height, (col + o[2]) % g.width) = Alive})

\* Conway's rule
Lives(cell, n) ==
    \/ cell = Alive /\ n \in {2, 3}
    \/ cell = Dead /\ n = 3

AliveCells(g) == {n \in 1..Len(g.cells) : g.cells[n] = Alive}

Ticked == op.name = "tick" /\ err = "none"

\* C1: on a grid with width >= 3 and height >= 3, one tick sets the cell at
\* (row, col) to Alive exactly when, before the tick, it was Alive with 2 or 3
\* live neighbours or Dead with exactly 3; in every other case to Dead.
C1_ConwayRule ==
    (Ticked /\ prev.width >= 3 /\ prev.height >= 3) =>
        \A row \in Rows(prev), col \in Cols(prev) :
            /\ CellAt(Current, row, col) \in {Dead, Alive}
            /\ CellAt(Current, row, col) = Alive
                  <=> Lives(CellAt(prev, row, col), LiveAround(prev, row, col))

\* a tick with a birth, a survival and a death by overpopulation
C1_Witness ==
    /\ Ticked /\ prev.width >= 3 /\ prev.height >= 3
    /\ \E row \in Rows(prev), col \in Cols(prev) :
          CellAt(prev, row, col) = Dead /\ CellAt(Current, row, col) = Alive
    /\ \E row \in Rows(prev), col \in Cols(prev) :
          CellAt(prev, row, col) = Alive /\ CellAt(Current, row, col) = Alive
    /\ \E row \in Rows(prev), col \in Cols(prev) :
          /\ CellAt(prev, row, col) = Alive /\ CellAt(Current, row, col) = Dead
          /\ LiveAround(prev, row, col) > 3

\* every cell updated at once from the grid g
Simultaneous(g) ==
    [n \in 1..Len(g.cells) |->
        NextCellState(g.cells[n],
                      live_neighbor_count(g, (n - 1) \div g.width, (n - 1) % g.width))]

\* other orders of visiting the cells
Backwards(order) == [k \in 1..Len(order) |-> order[Len(order) + 1 - k]]
ColMajor(g) ==
    [k \in 1..(g.width * g.height) |->
        <<(k - 1) % g.height, (k - 1) \div g.height>>]
Orders(g) == {Backwards(RowMajor(g)), ColMajor(g)}

\* C2: tick evaluates every cell against the grid as it was before the tick:
\* the result is the simultaneous update of all cells and is the same for every
\* order of visiting the cells; a single Alive cell with no live neighbour is
\* Dead after the tick.
C2_FrozenSnapshot ==
    Ticked =>
        /\ cells = Simultaneous(prev)
        /\ \A order \in Orders(prev) : TickLoop(prev, order, 1, prev.cells) = cells
        /\ \A row \in Rows(prev), col \in Cols(prev) :
              (/\ AliveCells(prev) = {row * prev.width + col + 1}
               /\ live_neighbor_count(prev, row, col) = 0)
                  => AliveCells(Current) = {}

\* a tick of a grid, 3 x 3 or more, whose only Alive cell has died
C2_Witness ==
    /\ Ticked /\ prev.width >= 3 /\ prev.height >= 3
    /\ Cardinality(AliveCells(prev)) = 1
    /\ AliveCells(Current) = {}

\* exactly the four corners are Alive
FourCorners(g) ==
    AliveCells(g) =
        {r * g.width + c + 1 : r \in {0, g.height - 1}, c \in {0, g.width - 1}}

\* C3: on a grid with width >= 3 and height >= 3, live_neighbor_count(row, col)
\* is the number of Alive cells among the 8 positions ((row + dr) mod height,
\* (col + dc) mod width); when only the four corners are Alive, each corner
\* counts 3.
C3_NeighborCountWraps ==
    (width >= 3 /\ height >= 3 /\ err = "none") =>
        /\ \A row \in Rows(Current), col \in Cols(Current) :
              live_neighbor_count(Current, row, col) = LiveAround(Current, row, col)
        /\ FourCorners(Current) =>
              \A row \in {0, height - 1}, col \in {0, width - 1} :
                  live_neighbor_count(Current, row, col) = 3

\* a tick of the four-corner grid, wider than it is high: the corners counted 3
\* and are still Alive
C3_Witness ==
    /\ Ticked /\ prev.width > prev.height /\ prev.height >= 3
    /\ FourCorners(prev)
    /\ \A row \in {0, height - 1}, col \in {0, width - 1} :
          CellAt(Current, row, col) = Alive

\* the quotient test for len = w * h, which no product can overflow
IsProduct(len, w, h) ==
    IF w = 0 \/ h = 0 THEN len = 0 ELSE len % w = 0 /\ len \div w = h

\* C4: len(cells) = width * height after new() and after any sequence of
\* operations, the resizes with positive dimensions.
C4_LenIsProduct ==
    (err = "none" /\ width > 0 /\ height > 0) =>
        IsProduct(Len(cells), width, height)

\* the coordinates of the Alive cells
AliveCoords(g) ==
    {<<(n - 1) \div g.width, (n - 1) % g.width>> : n \in AliveCells(g)}

\* the grid started as a 2 x 2 block on a grid of 4 x 4 or more
StartsAsBlock ==
    /\ start.width >= 4 /\ start.height >= 4
    /\ \E r \in Rows(start), c \in Cols(start) :
          AliveCoords(start) = Block(start.width, start.height, r, c)

\* C5: a grid, 4 x 4 or more, whose only Alive cells form a 2 x 2 block is
\* identical to the initial grid after every number of ticks.
C5_BlockIsStill ==
    StartsAsBlock => (err = "none" /\ Current = start)

\* a block that straddles both wrapped edges, after MaxGen ticks
C5_Witness ==
    /\ StartsAsBlock /\ gen = MaxGen /\ op.name = "tick"
    /\ AliveCoords(start) =
          Block(start.width, start.height, start.height - 1, start.width - 1)

\* C6: on a grid, 5 x 5 or more, whose only Alive cells are (r, c-1), (r, c),
\* (r, c+1), the only Alive cells after one tick are (r-1, c), (r, c), (r+1, c),
\* after two ticks the grid is the initial grid, and so on at every further tick.
C6_BlinkerAlternates ==
    \A r \in Rows(start), c \in Cols(start) :
        (/\ start.width >= 5 /\ start.height >= 5
         /\ AliveCoords(start) = BlinkerRow(start.width, start.height, r, c))
        => /\ err = "none"
           /\ width = start.width /\ height = start.height
           /\ gen % 2 = 0 => cells = start.cells
           /\ gen % 2 = 1 =>
                 AliveCoords(Current) = BlinkerCol(start.width, start.height, r, c)

\* a blinker across the wrapped edge, back after two ticks
C6_Witness ==
    /\ start.width >= 5 /\ start.height >= 5
    /\ AliveCoords(start) = BlinkerRow(start.width, start.height, 0, 0)
    /\ gen = 2 /\ op.name = "tick"
    /\ cells = start.cells
    /\ prev.cells # cells

\* the last call was toggle_cell with a coordinate inside the grid
ToggledInside ==
    /\ op.name = "toggle_cell"
    /\ op.row < prev.height
    /\ op.col < prev.width

\* C7 (first part): toggle_cell(row, col), in bounds, flips the cell at flat
\* index row * width + col and no other.
C7_FlipsOneCell ==
    ToggledInside =>
        /\ err = "none"
        /\ width = prev.width /\ height = prev.height
        /\ Len(cells) = Len(prev.cells)
        /\ \A n \in 1..Len(cells) :
              IF n = op.row * width + op.col + 1
              THEN cells[n] # prev.cells[n] /\ cells[n] \in {Dead, Alive}
              ELSE cells[n] = prev.cells[n]

\* C7 (second part): a second toggle_cell(row, col) right after the first
\* restores cells, width and height to what they were before the first.
C7_SecondRestores ==
    (/\ ToggledInside /\ err = "none"
     /\ op'.name = "toggle_cell" /\ op'.row = op.row /\ op'.col = op.col)
    => (/\ err' = "none"
        /\ Grid(width', height', cells') = prev)

\* C7: toggle_cell flips only the cell at row * width + col, and is its own
\* inverse.
C7_ToggleInvolution == []C7_FlipsOneCell /\ [][C7_SecondRestores]_vars

\* a toggle that brought a cell to life off the first row and column, on a grid
\* with other cells Alive and Dead
C7_Witness ==
    /\ ToggledInside /\ op.row >= 1 /\ op.col >= 1
    /\ CellAt(prev, op.row, op.col) = Dead
    /\ CellAt(Current, op.row, op.col) = Alive
    /\ Cardinality(AliveCells(Current)) >= 2
    /\ Cardinality(AliveCells(Current)) < Len(cells)

\* the entries of a list
Entries(list) == {list[k] : k \in 1..Len(list)}

\* the list without its k-th entry
DropAt(list, k) ==
    [j \in 1..(Len(list) - 1) |-> IF j < k THEN list[j] ELSE list[j + 1]]

\* the last call was set_cells with every coordinate inside the grid
SetInside ==
    /\ op.name = "set_cells"
    /\ \A e \in Entries(op.list) : e[1] < prev.height /\ e[2] < prev.width

\* C8: after set_cells(list), in bounds, a cell is Alive if its coordinate is in
\* the list and otherwise as before; width and height are unchanged; leaving
\* out a duplicate entry, or applying the list a second time, gives the same
\* grid.
C8_SetCellsFrame ==
    SetInside =>
        /\ err = "none"
        /\ width = prev.width /\ height = prev.height
        /\ Len(cells) = Len(prev.cells)
        /\ \A row \in Rows(prev), col \in Cols(prev) :
              CellAt(Current, row, col) =
                  IF <<row, col>> \in Entries(op.list)
                  THEN Alive
                  ELSE CellAt(prev, row, col)
        /\ \A k \in 1..Len(op.list) :
              op.list[k] \in Entries(DropAt(op.list, k))
                  => set_cells(prev, DropAt(op.list, k)) = {Outcome(cells, "none")}
        /\ set_cells(Current, op.list) = {Outcome(cells, "none")}

\* a list of two coordinates, one Dead and one Alive before, on a grid with
\* an unlisted Alive cell and an unlisted Dead cell
C8_Witness ==
    /\ SetInside /\ Len(op.list) = 2
    /\ CellAt(prev, op.list[1][1], op.list[1][2]) = Dead
    /\ CellAt(prev, op.list[2][1], op.list[2][2]) = Alive
    /\ \E row \in Rows(prev), col \in Cols(prev) :
          <<row, col>> \notin Entries(op.list) /\ CellAt(Current, row, col) = Alive
    /\ \E row \in Rows(prev), col \in Cols(prev) :
          <<row, col>> \notin Entries(op.list) /\ CellAt(Current, row, col) = Dead

\* C9: after set_width(w) (set_height(h)) with a positive dimension, width = w
\* (height = h), the other dimension is unchanged, len(cells) is the product of
\* the new dimensions and every cell is Dead.
C9_ResizeResets ==
    (op.name \in {"set_width", "set_height"} /\ op.size > 0 /\ err = "none") =>
        /\ IF op.name = "set_width"
           THEN width = op.size /\ height = prev.height
           ELSE height = op.size /\ width = prev.width
        /\ IsProduct(Len(cells), width, height)
        /\ AliveCells(Current) = {}

\* the last call was inject_random_cells on a grid with positive dimensions
Injected ==
    /\ op.name = "inject_random_cells"
    /\ prev.width > 0 /\ prev.height > 0

\* C10: inject_random_cells computes for every offset (dr, dc) of
\* [-size, size) x [-size, size) the target ((row + dr) mod height,
\* (col + dc) mod width), the floor-modulo, which lies in the grid; the
\* operation never fails.
C10_InjectTargets ==
    Injected =>
        /\ err = "none"
        /\ \A k \in 1..Len(InjectPasses(op.size)) :
              LET pass == InjectPasses(op.size)[k]
              IN  /\ InjectCol(prev, op.col, pass[1])
                        = (op.col + pass[1]) % prev.width
                  /\ InjectRow(prev, op.row, pass[2])
                        = (op.row + pass[2]) % prev.height

\* the coordinate lies outside the grid
Outside(g, row, col) == row >= g.height \/ col >= g.width

\* the flat indices (from 1) of the entries of a list that lie inside the grid
InsideIndices(g, list) ==
    {e[1] * g.width + e[2] + 1 : e \in {f \in Entries(list) : ~Outside(g, f[1], f[2])}}

\* C11: toggle_cell(row, col), and each entry (row, col) of set_cells, with
\* row >= height or col >= width is reported as a failure and changes no cell:
\* it is never mapped through row * width + col to another cell of the grid.
C11_OutsideIsRejected ==
    /\ (op.name = "toggle_cell" /\ Outside(prev, op.row, op.col))
          => (err = "panic" /\ cells = prev.cells)
    /\ (op.name = "set_cells" /\ \E e \in Entries(op.list) : Outside(prev, e[1], e[2]))
          => /\ err = "panic"
             /\ \A n \in 1..Len(cells) :
                   cells[n] # prev.cells[n] => n \in InsideIndices(prev, op.list)

\* C12: inject_random_cells(row, col, size) with size <= 0 leaves cells, width
\* and height as they were, whatever the centre and whatever the random source
\* would return, and does not call the random source.
C12_EmptyInjectIsNoOp ==
    (op.name = "inject_random_cells" /\ op.size <= 0) =>
        /\ cells = prev.cells
        /\ width = prev.width /\ height = prev.height
        /\ op.rand = 0

\* an inject of size 0 that returned, on a grid with Alive and Dead cells
C12_Witness ==
    /\ op.name = "inject_random_cells" /\ op.size = 0 /\ err = "none"
    /\ op.row < height /\ op.col < width
    /\ AliveCells(Current) # {}
    /\ Cardinality(AliveCells(Current)) < Len(cells)

\* the dimensions a resize asks for
AskedWidth == IF op.name = "set_width" THEN op.size ELSE prev.width
AskedHeight == IF op.name = "set_height" THEN op.size ELSE prev.height

\* C13: a set_width or set_height whose cell count width * height would be zero
\* or would leave the u32 range is rejected, with width, height and cells as
\* they were: no wrapped product and no zero dimension is installed.
C13_BadResizeIsRejected ==
    (/\ op.name \in {"set_width", "set_height"}
     /\ \/ AskedWidth = 0
        \/ AskedHeight = 0
        \/ MulOverflowsU32(AskedWidth, AskedHeight))
    => (err = "panic" /\ Current = prev)

\* the last call was text_render on a grid with positive dimensions
Rendered ==
    /\ op.name = "text_render"
    /\ prev.width > 0 /\ prev.height > 0

\* the lines of a text: the characters before each line break
RECURSIVE LinesOf(_)
LinesOf(text) ==
    IF \A i \in 1..Len(text) : text[i] # LineBreak
    THEN <<>>
    ELSE LET n == CHOOSE i \in 1..Len(text) :
                      text[i] = LineBreak /\ \A j \in 1..(i - 1) : text[j] # LineBreak
         IN  <<SubSeq(text, 1, n - 1)>> \o LinesOf(SubSeq(text, n + 1, Len(text)))

\* C14: on a grid with positive dimensions text_render() returns exactly height
\* lines, each of exactly width glyphs followed by a line break; the glyph at
\* line r, position c is the dead glyph if cell r * width + c is Dead and the
\* alive glyph if it is Alive; the call does not fail and leaves cells, width
\* and height unchanged.
C14_RenderLines ==
    Rendered =>
        /\ err = "none"
        /\ Current = prev
        /\ Len(op.text) = height * (width + 1)
        /\ op.text[Len(op.text)] = LineBreak
        /\ Len(LinesOf(op.text)) = height
        /\ \A r \in Rows(prev) :
              /\ Len(LinesOf(op.text)[r + 1]) = width
              /\ \A c \in Cols(prev) :
                    /\ CellAt(prev, r, c) = Dead
                          => LinesOf(op.text)[r + 1][c + 1] = DeadSymbol
                    /\ CellAt(prev, r, c) = Alive
                          => LinesOf(op.text)[r + 1][c + 1] = AliveSymbol

\* a rendering of a grid wider than high, with Alive and Dead cells on its
\* last line
C14_Witness ==
    /\ Rendered /\ err = "none"
    /\ width > height /\ height >= 2
    /\ \E c \in Cols(prev) : CellAt(prev, height - 1, c) = Alive
    /\ \E c \in Cols(prev) : CellAt(prev, height - 1, c) = Dead

\* the passes of the two nested loops of live_neighbor_count that are not
\* skipped
EvaluatedPasses(g) ==
    {k \in 1..9 : ~(/\ RowDeltas(g)[((k - 1) \div 3) + 1] = 0
                    /\ ColDeltas(g)[((k - 1) % 3) + 1] = 0)}

\* C15: on a grid with width >= 1 and height >= 1, dimensions 1 and 2 included,
\* live_neighbor_count(row, col) evaluates all 8 offsets other than (0, 0),
\* skips only the offset (0, 0), and returns the number of those 8 wrapped
\* positions that are Alive, a value in 0 .. 8.
C15_CountsEightOffsets ==
    (Ticked /\ prev.width >= 1 /\ prev.height >= 1) =>
        /\ Cardinality(EvaluatedPasses(prev)) = 8
        /\ \A row \in Rows(prev), col \in Cols(prev) :
              /\ live_neighbor_count(prev, row, col) = LiveAround(prev, row, col)
              /\ live_neighbor_count(prev, row, col) \in 0..8

\* the flat indices (from 0) of the wrapped square of a centre and a size
Square(g, row, col, size) ==
    {((row + dr) % g.height) * g.width + ((col + dc) % g.width) :
        dr \in (-size)..(size - 1), dc \in (-size)..(size - 1)}

\* the last call was inject_random_cells with its centre inside the grid and
\* 0 < size <= min(width, height)
InjectedInside ==
    /\ Injected
    /\ op.row < prev.height /\ op.col < prev.width
    /\ op.size > 0 /\ op.size <= prev.width /\ op.size <= prev.height

\* C16: inject_random_cells with its centre inside the grid and
\* 0 < size <= min(width, height) changes only cells at ((row + dr) mod height,
\* (col + dc) mod width) with dr, dc in [-size, size): every other cell keeps
\* its state, width and height are unchanged, and every cell of the square can
\* end Dead and can end Alive, as the random source decides.
C16_InjectFrame ==
    InjectedInside =>
        LET square == Square(prev, op.row, op.col, op.size)
            outs == inject_random_cells(prev, op.row, op.col, op.size)
        IN  /\ err = "none"
            /\ width = prev.width /\ height = prev.height
            /\ Len(cells) = Len(prev.cells)
            /\ \A n \in 1..Len(cells) :
                  (n - 1) \notin square => cells[n] = prev.cells[n]
            /\ \A out \in outs :
                  LET ends == RandomFill(prev.cells, out.written)
                  IN  /\ out.err = "none"
                      /\ \A n \in 1..Len(cells) :
                            IF (n - 1) \in square
                            THEN \A v \in {Dead, Alive} : \E d \in ends : d[n] = v
                            ELSE \A d \in ends : d[n] = prev.cells[n]

\* an inject of size 1 at the corner (0, 0) of a grid 3 wide: the square wraps
\* to the last row and column, leaves cells out, and a cell of it has changed
\* while an Alive cell outside it stays
C16_Witness ==
    /\ InjectedInside /\ err = "none"
    /\ op.row = 0 /\ op.col = 0 /\ op.size = 1 /\ width = 3 /\ height = 2
    /\ cells[width * height] # prev.cells[width * height]
    /\ \E n \in 1..Len(cells) :
          (n - 1) \notin Square(prev, 0, 0, 1) /\ cells[n] = Alive

\* the last call was tick on a grid with width * height cells
TickedWellFormed ==
    /\ op.name = "tick"
    /\ IsProduct(Len(prev.cells), prev.width, prev.height)

\* C17: tick() leaves width and height unchanged and does not fail on a grid
\* with len(cells) = width * height, whatever its cells (every cell with 8
\* live neighbours included) and whatever sequence of toggle_cell, set_cells,
\* inject_random_cells and resizes has led to it.
C17_TickIsTotal ==
    TickedWellFormed =>
        /\ err = "none"
        /\ width = prev.width /\ height = prev.height
        /\ Len(cells) = Len(prev.cells)

\* a tick of a grid, set up by resizes and cell writes, in which every cell is
\* Alive and counts 8 live neighbours
C17_Witness ==
    /\ TickedWellFormed /\ err = "none"
    /\ prev.width >= 2 /\ prev.height >= 2
    /\ \A row \in Rows(prev), col \in Cols(prev) :
          /\ CellAt(prev, row, col) = Alive
          /\ live_neighbor_count(prev, row, col) = 8

\* C18: right after new() the grid is 200 wide and 100 high, and for every
\* flat index i in [0, width * height) the cell at i is Alive if i % 2 = 0 or
\* i % 7 = 0, and Dead otherwise.
C18_NewPattern ==
    op.name = "new" =>
        /\ width = 200 /\ height = 100
        /\ Len(cells) = 20000
        /\ \A i \in 0..(width * height - 1) :
              /\ cells[i + 1] \in {Dead, Alive}
              /\ cells[i + 1] = Alive <=> (i % 2 = 0 \/ i % 7 = 0)

\* the grid new() returns: index 7 is Alive by the rule of 7 alone, index 14
\* by both rules, index 8 by the rule of 2 alone, index 9 is Dead; the last
\* cell, index 19999 = 7 * 2857, is Alive
C18_Witness ==
    /\ op.name = "new" /\ err = "none"
    /\ cells[7 + 1] = Alive /\ cells[14 + 1] = Alive /\ cells[8 + 1] = Alive
    /\ cells[9 + 1] = Dead
    /\ cells[19997 + 1] = Dead /\ cells[19999 + 1] = Alive

\* C19: on a grid with positive dimensions and for every (row, col) inside it,
\* get_index(row, col) = row * width + col lies in [0, width * height), two
\* different coordinates have different indices, and row = index div width,
\* col = index mod width.
C19_IndexBijection ==
    (err = "none" /\ width > 0 /\ height > 0) =>
        /\ \A row \in Rows(Current), col \in Cols(Current) :
              LET index == get_index(Current, row, col)
              IN  /\ index = row * width + col
                  /\ index \in 0..(width * height - 1)
                  /\ index \div width = row
                  /\ index % width = col
        /\ \A p, q \in Rows(Current) \X Cols(Current) :
              p # q => get_index(Current, p[1], p[2]) # get_index(Current, q[1], q[2])

\* a toggle_cell(row, col) off the first row and column of a grid wider than
\* high: the cell that changed is the one whose index gives back (row, col)
C19_Witness ==
    /\ ToggledInside /\ err = "none"
    /\ op.row >= 1 /\ op.col >= 1 /\ width > height
    /\ \E n \in 1..Len(cells) :
          /\ cells[n] # prev.cells[n]
          /\ n - 1 = get_index(prev, op.row, op.col)
          /\ (n - 1) \div width = op.row
          /\ (n - 1) % width = op.col

====
